---- MODULE Spec2Model ----
(***************************************************************************)
(* Model of code/replication/staleNewsProcedure.py: the stale-news         *)
(* procedure that walks a chronological stream of articles, compares each  *)
(* article with the articles of the same company seen in the last 72       *)
(* hours, and writes one csv row per (article, ticker).                    *)
(*                                                                         *)
(* Time is counted in hours.  A text is a sequence of one-character        *)
(* strings; a word is a non-empty sequence of non-blank characters.  A     *)
(* similarity score is the pair <<n, d>> standing for the float n / d;     *)
(* floats are compared by cross-multiplication, which agrees with IEEE     *)
(* division for the small token counts used here.                          *)
(***************************************************************************)
EXTENDS Integers, Sequences, FiniteSets, TLC

(***************************************************************************)
(* Program constants.                                                      *)
(***************************************************************************)
HorizonHours == 72
TopK == 5
OldNum == 3
OldDen == 5
ReprintNum == 4
ReprintDen == 5
DefaultSim == -1

(***************************************************************************)
(* Bounds of the model.                                                    *)
(***************************************************************************)
MaxStories == 3
MaxStoriesOne == 4
MaxStoriesDeep == 7
MaxStoriesTwice == 3
MaxStoriesTwo == 3
MaxTextLen == 3

\* Python's None, where a string, a float or a list may stand
None == <<>>

(***************************************************************************)
(* State.                                                                  *)
(*   companies  the dict of procedure: ticker -> linked list               *)
(*   stream     the articles xmlTreeGetter has yielded, as Story objects   *)
(*   ti         position in story.tickers of the for loop of procedure     *)
(*   rows       the rows written to the csv file, after the header         *)
(*   pc         "loop", "raised" (an exception left procedure), "done"     *)
(*   last       the locals of the last call of staleNewsProcedure that     *)
(*              returned, <<>> before the first                            *)
(*   simArgs    the arguments <<orig, B>> of a call of similaritytest on   *)
(*              its own, <<>> when there is none                           *)
(*   simResult  the outcome of that call                                   *)
(*   hashseed   the seed of str.__hash__ in the running process: it fixes  *)
(*              the order in which a set of words is listed                *)
(*   firstRun   the input and the output of an earlier run of procedure on *)
(*              the same files, <<>> when there is none                    *)
(***************************************************************************)
VARIABLES companies, stream, ti, rows, pc, last, simArgs, simResult, hashseed, firstRun

vars == <<companies, stream, ti, rows, pc, last, simArgs, simResult, hashseed, firstRun>>

(***************************************************************************)
(* Generic sequence helpers.                                               *)
(***************************************************************************)
Range(s) == {s[i] : i \in 1..Len(s)}

RECURSIVE Concat(_)
Concat(ss) == IF ss = <<>> THEN <<>> ELSE Head(ss) \o Concat(Tail(ss))

RECURSIVE SetToSeq(_)
SetToSeq(S) ==
    IF S = {} THEN <<>>
    ELSE LET x == CHOOSE y \in S : TRUE IN <<x>> \o SetToSeq(S \ {x})

(***************************************************************************)
(* Text normalisation: stop(stem(word_tokenize(text))).                    *)
(***************************************************************************)
Blank == " "
StopWords == {<<"a">>}

\* word_tokenize: split the text at blanks
RECURSIVE Tokenize(_, _)
Tokenize(text, word) ==
    IF text = <<>> THEN (IF word = <<>> THEN <<>> ELSE <<word>>)
    ELSE IF Head(text) = Blank
         THEN (IF word = <<>> THEN <<>> ELSE <<word>>) \o Tokenize(Tail(text), <<>>)
         ELSE Tokenize(Tail(text), Append(word, Head(text)))

word_tokenize(text) == Tokenize(text, <<>>)

\* stemmer.stem: words of one or two letters are kept, a longer word loses a
\* final "s" (step 1a of the Porter stemmer; the other steps do not apply to
\* the words of the model)
stemWord(w) ==
    IF Len(w) > 2 /\ w[Len(w)] = "s" /\ w[Len(w) - 1] # "s"
    THEN SubSeq(w, 1, Len(w) - 1)
    ELSE w

RECURSIVE stem(_)
stem(tokenizedWords) ==
    IF tokenizedWords = <<>> THEN <<>>
    ELSE <<stemWord(Head(tokenizedWords))>> \o stem(Tail(tokenizedWords))

\* list(filtered_sentence): the words of a set in the order the hash seed
\* gives them, here the seed-th rotation of one listing
ListOfSet(S, seed) ==
    LET l == SetToSeq(S)
        n == Len(l)
    IN IF n = 0 THEN <<>>
       ELSE SubSeq(l, (seed % n) + 1, n) \o SubSeq(l, 1, seed % n)

\* stop: the words that are no stop words, collected in a set, as a list
stop(tokenizedWords) ==
    ListOfSet({w \in Range(tokenizedWords) : w \notin StopWords}, hashseed)

textWordsOf(text) == stop(stem(word_tokenize(text)))

(***************************************************************************)
(* Story objects.                                                          *)
(***************************************************************************)
\* Story(et): an article of the stream; the accession number is a string,
\* here the one-element sequence of the article's position in the stream
StoryEt(number, date, tick, txt) ==
    [accessionNumber |-> number, displayDate |-> date, tickers |-> tick,
     text |-> txt, textWords |-> textWordsOf(txt), sim |-> DefaultSim]

\* Story(neighbor = text): the merged neighbour, class defaults elsewhere
StoryNeighbor(txt) ==
    [accessionNumber |-> <<0>>, displayDate |-> 0, tickers |-> <<>>,
     text |-> txt, textWords |-> textWordsOf(txt), sim |-> DefaultSim]

\* a slip: <= for <
StoryLtOrEqual(a, b) == a.sim <= b.sim

\* Story.__lt__ between two stories
StoryLt(a, b) == a.sim < b.sim

\* two references denote the same Story object (Story defines no __eq__)
SameStory(a, b) == a.accessionNumber = b.accessionNumber

(***************************************************************************)
(* Similarity.                                                             *)
(***************************************************************************)
\* a slip: the values of lst1 that are not in lst2
intersectionNot(lst1, lst2) == SelectSeq(lst1, LAMBDA v : v \notin Range(lst2))

\* a slip: the lists compared place by place
intersectionByPlace(lst1, lst2) ==
    SelectSeq(lst1, LAMBDA v : \E i \in 1..Len(lst2) :
                                  i <= Len(lst1) /\ lst1[i] = v /\ lst2[i] = v)

intersection(lst1, lst2) == SelectSeq(lst1, LAMBDA v : v \in Range(lst2))

\* a slip: the division by zero goes unnoticed
RaisesNever(orig) == FALSE

\* the division in similaritytest raises ZeroDivisionError
Raises(orig) == Len(orig.textWords) = 0

\* a slip: the overlap relative to the other article
similaritytestByOther(orig, B) ==
    <<Len(intersection(orig.textWords, B.textWords)), Len(B.textWords)>>

similaritytest(orig, B) ==
    <<Len(intersection(orig.textWords, B.textWords)), Len(orig.textWords)>>

\* float comparisons
FLt(x, y) == x[1] * y[2] < y[1] * x[2]
FEq(x, y) == x[1] * y[2] = y[1] * x[2]
FGe(x, y) == ~FLt(x, y)

(***************************************************************************)
(* Python's ordering of the items kept in the heaps.                       *)
(***************************************************************************)
\* (sim, story) < (sim, story): the first differing component decides; two
\* different stories of equal sim are compared by Story.__lt__
TupleEq(x, y) == FEq(x[1], y[1]) /\ SameStory(x[2], y[2])

TupleLt(x, y) ==
    IF ~FEq(x[1], y[1]) THEN FLt(x[1], y[1])
    ELSE IF ~SameStory(x[2], y[2]) THEN StoryLt(x[2], y[2])
    ELSE FALSE

\* ((sim, story), order) < ((sim, story), order), the items of nlargest
DecoratedLt(x, y) ==
    IF ~TupleEq(x[1], y[1]) THEN TupleLt(x[1], y[1]) ELSE x[2] < y[2]

ItemLt(decorated, x, y) == IF decorated THEN DecoratedLt(x, y) ELSE TupleLt(x, y)

(***************************************************************************)
(* heapq.  Positions are Python's (from 0); heap[pos] is At(heap, pos).    *)
(***************************************************************************)
At(heap, pos) == heap[pos + 1]
Put(heap, pos, item) ==
    SubSeq(heap, 1, pos) \o <<item>> \o SubSeq(heap, pos + 2, Len(heap))

RECURSIVE siftdown(_, _, _, _, _)
siftdown(decorated, heap, startpos, pos, newitem) ==
    IF pos > startpos
    THEN LET parentpos == (pos - 1) \div 2
             parent == At(heap, parentpos)
         IN IF ItemLt(decorated, newitem, parent)
            THEN siftdown(decorated, Put(heap, pos, parent), startpos, parentpos, newitem)
            ELSE Put(heap, pos, newitem)
    ELSE Put(heap, pos, newitem)

RECURSIVE siftupLoop(_, _, _, _, _)
siftupLoop(decorated, heap, startpos, pos, newitem) ==
    LET endpos == Len(heap)
        leftpos == 2 * pos + 1
        rightpos == leftpos + 1
        childpos == IF rightpos < endpos
                       /\ ~ItemLt(decorated, At(heap, leftpos), At(heap, rightpos))
                    THEN rightpos ELSE leftpos
    IN IF leftpos < endpos
       THEN siftupLoop(decorated, Put(heap, pos, At(heap, childpos)), startpos, childpos, newitem)
       ELSE siftdown(decorated, heap, startpos, pos, newitem)

siftup(decorated, heap, pos) == siftupLoop(decorated, heap, pos, pos, At(heap, pos))

heappush(heap, item) == siftdown(FALSE, Append(heap, item), 0, Len(heap), item)

RECURSIVE heapifyFrom(_, _)
heapifyFrom(x, i) == IF i < 0 THEN x ELSE heapifyFrom(siftup(TRUE, x, i), i - 1)

heapify(x) == heapifyFrom(x, (Len(x) \div 2) - 1)

heapreplace(heap, item) == siftup(TRUE, Put(heap, 0, item), 0)

\* list.sort(reverse = True) and sorted(..., reverse = True): stable, an item
\* moves in front of the items it is greater than
RECURSIVE InsertDesc(_, _, _)
InsertDesc(decorated, sorted, item) ==
    IF sorted = <<>> THEN <<item>>
    ELSE IF ItemLt(decorated, sorted[Len(sorted)], item)
         THEN Append(InsertDesc(decorated, SubSeq(sorted, 1, Len(sorted) - 1), item),
                     sorted[Len(sorted)])
         ELSE Append(sorted, item)

RECURSIVE SortFrom(_, _, _)
SortFrom(decorated, sorted, rest) ==
    IF rest = <<>> THEN sorted
    ELSE SortFrom(decorated, InsertDesc(decorated, sorted, Head(rest)), Tail(rest))

sortedReverse(decorated, lst) == SortFrom(decorated, <<>>, lst)

\* the loop of nlargest over the items after the first n
RECURSIVE nlargestLoop(_, _, _)
nlargestLoop(result, rest, order) ==
    IF rest = <<>> THEN result
    ELSE LET elem == Head(rest)
             top == At(result, 0)[1]
         IN IF TupleLt(top, elem)
            THEN nlargestLoop(heapreplace(result, <<elem, order>>), Tail(rest), order - 1)
            ELSE nlargestLoop(result, Tail(rest), order)

\* [(elem, i) for i, elem in zip(range(0, -n, -1), it)]
RECURSIVE Decorate(_, _)
Decorate(elems, i) ==
    IF elems = <<>> THEN <<>>
    ELSE <<<<Head(elems), i>>>> \o Decorate(Tail(elems), i - 1)

\* [elem for (elem, order) in result]
RECURSIVE Undecorate(_)
Undecorate(result) ==
    IF result = <<>> THEN <<>> ELSE <<Head(result)[1]>> \o Undecorate(Tail(result))

\* heapq.nlargest(n, iterable) for n > 1 and no key
nlargest(n, iterable) ==
    LET size == Len(iterable) IN
    IF n >= size
    THEN sortedReverse(FALSE, iterable)
    ELSE LET result == heapify(Decorate(SubSeq(iterable, 1, n), 0))
             final == nlargestLoop(result, SubSeq(iterable, n + 1, size), -n)
         IN Undecorate(sortedReverse(TRUE, final))

(***************************************************************************)
(* myLinkedList: the nodes after the sentinel, newest first.  curr is the  *)
(* position of the current node, 0 for the sentinel; it is reset at the    *)
(* start of every traversal.                                               *)
(***************************************************************************)
myLinkedList == <<>>

\* a slip: the node is linked at the end
addBack(list, val) == Append(list, val)

\* a slip: the node is linked behind the first node
addSecond(list, val) ==
    IF list = <<>> THEN <<val>> ELSE <<Head(list), val>> \o Tail(list)

addFront(list, val) == <<val>> \o list

\* a slip: the node is not unlinked
cutNothing(list, curr) == list

\* cut: curr.nextNode = None, the current node stays
cut(list, curr) == SubSeq(list, 1, curr)

(***************************************************************************)
(* stale and staleNewsProcedure.                                           *)
(***************************************************************************)
RECURSIVE Texts(_)
Texts(neighborStories) ==
    IF neighborStories = <<>> THEN <<>>
    ELSE <<Head(neighborStories)[2].text>> \o Texts(Tail(neighborStories))

\* ''.join([storyTuple[1].text for storyTuple in neighborStories])
neighborWordsOf(neighborStories) == Concat(Texts(neighborStories))

\* a slip: every old story flagged a recombination
staleBothFlags(origStory, neighborStories) ==
    IF Len(neighborStories) = 0
    THEN [old |-> FALSE, reprint |-> FALSE, recomb |-> FALSE, overlap |-> <<0, 1>>]
    ELSE LET intersectionall ==
                 similaritytest(origStory, StoryNeighbor(neighborWordsOf(neighborStories)))
             intersectionmax == neighborStories[1][1]
             isOld == ~FLt(intersectionall, <<OldNum, OldDen>>)
             isRep == ~FLt(intersectionmax, <<ReprintNum, ReprintDen>>)
         IN [old |-> isOld, reprint |-> isOld /\ isRep, recomb |-> isOld,
             overlap |-> intersectionall]

\* a slip: > for >= at both thresholds
staleStrict(origStory, neighborStories) ==
    IF Len(neighborStories) = 0
    THEN [old |-> FALSE, reprint |-> FALSE, recomb |-> FALSE, overlap |-> <<0, 1>>]
    ELSE LET intersectionall ==
                 similaritytest(origStory, StoryNeighbor(neighborWordsOf(neighborStories)))
             intersectionmax == neighborStories[1][1]
             isOld == FLt(<<OldNum, OldDen>>, intersectionall)
             isRep == FLt(<<ReprintNum, ReprintDen>>, intersectionmax)
         IN [old |-> isOld, reprint |-> isOld /\ isRep, recomb |-> isOld /\ ~isRep,
             overlap |-> intersectionall]

\* stale: [IS_OLD, IS_REPRINT, IS_RECOMB, TOTAL_OVERLAP]
stale(origStory, neighborStories) ==
    IF Len(neighborStories) = 0
    THEN [old |-> FALSE, reprint |-> FALSE, recomb |-> FALSE, overlap |-> <<0, 1>>]
    ELSE LET intersectionall ==
                 similaritytest(origStory, StoryNeighbor(neighborWordsOf(neighborStories)))
             intersectionmax == neighborStories[1][1]
             isOld == FGe(intersectionall, <<OldNum, OldDen>>)
             isRep == FGe(intersectionmax, <<ReprintNum, ReprintDen>>)
         IN [old |-> isOld, reprint |-> isOld /\ isRep, recomb |-> isOld /\ ~isRep,
             overlap |-> intersectionall]

\* a slip: >= for >
TooOldInclusive(story, compStory) ==
    story.displayDate - compStory.displayDate >= HorizonHours

\* a slip: a horizon of four days
TooOldFourDays(story, compStory) ==
    story.displayDate - compStory.displayDate > HorizonHours + 24

TooOld(story, compStory) == story.displayDate - compStory.displayDate > HorizonHours

\* the while loop of staleNewsProcedure from the node at position curr on:
\* the list it leaves, the heap it built, and whether similaritytest raised
RECURSIVE Traverse(_, _, _, _)
Traverse(story, list, curr, maxpq) ==
    IF curr > Len(list)
    THEN [list |-> list, maxpq |-> maxpq, raised |-> FALSE, cutAt |-> 0]
    ELSE LET compStory == list[curr] IN
         IF TooOld(story, compStory)
         THEN [list |-> cut(list, curr), maxpq |-> maxpq, raised |-> FALSE, cutAt |-> curr]
         ELSE IF Raises(story)
         THEN [list |-> list, maxpq |-> maxpq, raised |-> TRUE, cutAt |-> 0]
         ELSE Traverse(story, list, curr + 1,
                       heappush(maxpq, <<similaritytest(story, compStory), compStory>>))

\* staleNewsProcedure(ticker, story, companies, simtest): the locals of the
\* call, the list it leaves for the ticker and the row it returns
staleNewsProcedure(ticker, story, companyLL) ==
    LET t == Traverse(story, companyLL, 1, <<>>)
        largestFive == nlargest(TopK, t.maxpq)
        old_reprint_recomb == stale(story, largestFive)
        largestacc == IF largestFive # <<>> THEN largestFive[1][2].accessionNumber ELSE None
        largestsim == IF largestFive # <<>> THEN largestFive[1][1] ELSE None
    IN [raised |-> t.raised,
        ticker |-> ticker,
        story |-> story,
        before |-> companyLL,
        cutAt |-> t.cutAt,
        maxpq |-> t.maxpq,
        largestFive |-> largestFive,
        list |-> addFront(t.list, story),
        row |-> [DATE_EST |-> story.displayDate,
                 STORY_ID |-> story.accessionNumber,
                 TICKER |-> ticker,
                 CLOSEST_ID |-> largestacc,
                 CLOSEST_SCORE |-> largestsim,
                 TOTAL_OVERLAP |-> old_reprint_recomb.overlap,
                 IS_OLD |-> old_reprint_recomb.old,
                 IS_REPRINT |-> old_reprint_recomb.reprint,
                 IS_RECOMB |-> old_reprint_recomb.recomb]]

(***************************************************************************)
(* The articles a stream can bring.                                        *)
(***************************************************************************)
TickerX == <<"X">>
TickerY == <<"Y">>
TickerXO == <<"X", ".", "O">>

TickerLists ==
    {<<>>, <<TickerX>>, <<TickerX, TickerXO>>, <<TickerX, TickerY>>, <<TickerX, TickerX>>}
TickerListsDeep == {<<TickerX>>}

\* hours between an article and the one before it
Deltas == {0, 72, 80}
DeltasDeep == {0, 72}

TextA == <<"a">>
TextF5 == <<"b", " ", "c", " ", "d", " ", "e", " ", "f", "f", "s">>
TextD3 == <<"b", " ", "c", " ", "d", " ", "b">>
TextE4 == <<"b", " ", "c", " ", "d", " ", "e">>
TextBC == <<"b", " ", "c">>
TextBD == <<"b", " ", "d">>

ArticleTexts == {TextA, TextF5, TextD3, TextE4}
ArticleTextsDeep == {TextBC, TextBD}

NoResult == [state |-> "none", value |-> <<0, 1>>]

\* the article the for loop is at
story == stream[Len(stream)]

\* time of the article read last
Clock == IF stream = <<>> THEN 0 ELSE story.displayDate

\* the while loop of procedure is about to call next(xtg)
AtLoopTop == pc = "loop" /\ (IF stream = <<>> THEN TRUE ELSE ti > Len(story.tickers))

\* the for loop has a ticker to look at
AtTicker == pc = "loop" /\ (IF stream = <<>> THEN FALSE ELSE ti <= Len(story.tickers))

\* a slip: the test for '.' is left out
HasDotNever(ticker) == FALSE

HasDot(ticker) == \E i \in 1..Len(ticker) : ticker[i] = "."

Init ==
    /\ hashseed = 0
    /\ firstRun = <<>>
    /\ companies = <<>>
    /\ stream = <<>>
    /\ ti = 1
    /\ rows = <<>>
    /\ pc = "loop"
    /\ last = <<>>
    /\ simArgs = <<>>
    /\ simResult = NoResult

\* story = Story(et) for the next article; an article without tickers is
\* passed over by the continue
ReadStory(maxStories, deltas, tickerLists, texts) ==
    /\ AtLoopTop
    /\ Len(stream) < maxStories
    /\ \E d \in deltas, tick \in tickerLists, txt \in texts :
           stream' = Append(stream, StoryEt(<<Len(stream) + 1>>, Clock + d, tick, txt))
    /\ ti' = 1
    /\ UNCHANGED <<companies, rows, pc, last, simArgs, simResult, hashseed, firstRun>>

\* next(xtg) raises StopIteration: break
EndOfStream ==
    /\ AtLoopTop
    /\ pc' = "done"
    /\ UNCHANGED <<companies, stream, ti, rows, last, simArgs, simResult, hashseed, firstRun>>

\* if '.' in ticker: continue
SkipTicker ==
    /\ AtTicker
    /\ HasDot(story.tickers[ti])
    /\ ti' = ti + 1
    /\ UNCHANGED <<companies, stream, rows, pc, last, simArgs, simResult, hashseed, firstRun>>

\* companies after "if ticker not in companies: companies[ticker] = myLinkedList()"
WithKey(ticker) ==
    IF ticker \in DOMAIN companies THEN companies
    ELSE [k \in DOMAIN companies \cup {ticker} |->
              IF k = ticker THEN myLinkedList ELSE companies[k]]

\* one pass of the for loop for a primary ticker: staleNewsProcedure returns
\* and its row is written
ProcessTicker ==
    /\ AtTicker
    /\ LET ticker == story.tickers[ti]
           called == staleNewsProcedure(ticker, story, WithKey(ticker)[ticker])
       IN /\ ~HasDot(ticker)
          /\ ~called.raised
          /\ companies' = [WithKey(ticker) EXCEPT ![ticker] = called.list]
          /\ rows' = Append(rows, called.row)
          /\ last' = <<called>>
    /\ ti' = ti + 1
    /\ UNCHANGED <<stream, pc, simArgs, simResult, hashseed, firstRun>>

\* one pass of the for loop in which similaritytest divides by zero: the
\* exception leaves staleNewsProcedure and procedure
RaiseZeroDivision ==
    /\ AtTicker
    /\ LET ticker == story.tickers[ti]
           called == staleNewsProcedure(ticker, story, WithKey(ticker)[ticker])
       IN /\ ~HasDot(ticker)
          /\ called.raised
          /\ companies' = WithKey(ticker)
    /\ pc' = "raised"
    /\ UNCHANGED <<stream, ti, rows, last, simArgs, simResult, hashseed, firstRun>>

ReadStoryWide == ReadStory(MaxStories, Deltas, TickerLists, ArticleTexts)
ReadStoryOne == ReadStory(MaxStoriesOne, Deltas, TickerListsDeep, ArticleTexts)
ReadStoryDeep == ReadStory(MaxStoriesDeep, DeltasDeep, TickerListsDeep, ArticleTextsDeep)

Next ==
    \/ ReadStoryWide
    \/ EndOfStream
    \/ SkipTicker
    \/ ProcessTicker
    \/ RaiseZeroDivision

Spec == Init /\ [][Next]_vars

\* one company, every article text
NextOne ==
    \/ ReadStoryOne
    \/ EndOfStream
    \/ ProcessTicker
    \/ RaiseZeroDivision

SpecOne == Init /\ [][NextOne]_vars

\* long histories of one company
NextDeep ==
    \/ ReadStoryDeep
    \/ EndOfStream
    \/ ProcessTicker

SpecDeep == Init /\ [][NextDeep]_vars

(***************************************************************************)
(* similaritytest on its own: the arguments are Story objects built from   *)
(* any text of at most MaxTextLen characters, as the merged neighbour is.  *)
(***************************************************************************)
Chars == {"a", "b", "s", Blank}

RECURSIVE TextsUpTo(_)
TextsUpTo(n) ==
    IF n = 0 THEN {<<>>}
    ELSE LET shorter == TextsUpTo(n - 1)
         IN shorter \cup {Append(t, c) : t \in {u \in shorter : Len(u) = n - 1}, c \in Chars}

InitSim ==
    /\ hashseed = 0
    /\ firstRun = <<>>
    /\ companies = <<>>
    /\ stream = <<>>
    /\ ti = 1
    /\ rows = <<>>
    /\ pc = "sim"
    /\ last = <<>>
    /\ \E t1 \in TextsUpTo(MaxTextLen), t2 \in TextsUpTo(MaxTextLen) :
           simArgs = <<StoryNeighbor(t1), StoryNeighbor(t2)>>
    /\ simResult = NoResult

\* similaritytest(orig, B) returns
CallSimilarity ==
    /\ pc = "sim"
    /\ simResult.state = "none"
    /\ ~Raises(simArgs[1])
    /\ simResult' = [state |-> "returned", value |-> similaritytest(simArgs[1], simArgs[2])]
    /\ UNCHANGED <<companies, stream, ti, rows, pc, last, simArgs, hashseed, firstRun>>

\* similaritytest(orig, B) raises ZeroDivisionError
CallSimilarityRaises ==
    /\ pc = "sim"
    /\ simResult.state = "none"
    /\ Raises(simArgs[1])
    /\ simResult' = [state |-> "raised", value |-> <<0, 1>>]
    /\ UNCHANGED <<companies, stream, ti, rows, pc, last, simArgs, hashseed, firstRun>>

NextSim ==
    \/ CallSimilarity
    \/ CallSimilarityRaises

SpecSim == InitSim /\ [][NextSim]_vars

\* two companies, articles with and without tokens, tags that are skipped
TickerListsTwo == {<<>>, <<TickerX>>, <<TickerY, TickerXO>>, <<TickerX, TickerY>>}
DeltasTwo == {0, 80}
ArticleTextsTwo == {TextA, TextE4}

ReadStoryTwo == ReadStory(MaxStoriesTwo, DeltasTwo, TickerListsTwo, ArticleTextsTwo)

NextTwo ==
    \/ ReadStoryTwo
    \/ EndOfStream
    \/ SkipTicker
    \/ ProcessTicker
    \/ RaiseZeroDivision

SpecTwo == Init /\ [][NextTwo]_vars

(***************************************************************************)
(* procedure run twice on the same files: the first process ends, by the   *)
(* end of the stream or by an exception, and a second process with a hash  *)
(* seed of its own starts from an empty dict and reads the same articles.  *)
(***************************************************************************)
HashSeeds == {0, 1}
TickerListsTwice == {<<TickerX>>, <<TickerX, TickerY>>}
DeltasTwice == {0, 80}
ArticleTextsTwice == {TextA, TextF5, TextE4}

InitTwice ==
    /\ hashseed \in HashSeeds
    /\ firstRun = <<>>
    /\ companies = <<>>
    /\ stream = <<>>
    /\ ti = 1
    /\ rows = <<>>
    /\ pc = "loop"
    /\ last = <<>>
    /\ simArgs = <<>>
    /\ simResult = NoResult

ReadStoryTwice ==
    /\ firstRun = <<>>
    /\ ReadStory(MaxStoriesTwice, DeltasTwice, TickerListsTwice, ArticleTextsTwice)

EndOfStreamFirst ==
    /\ firstRun = <<>>
    /\ EndOfStream

\* procedure is called again in a new process: companies = dict(), the csv
\* file is opened anew
RunAgain ==
    /\ firstRun = <<>>
    /\ pc \in {"done", "raised"}
    /\ firstRun' = <<[hashseed |-> hashseed, stream |-> stream, rows |-> rows, pc |-> pc]>>
    /\ hashseed' \in HashSeeds
    /\ companies' = <<>>
    /\ stream' = <<>>
    /\ ti' = 1
    /\ rows' = <<>>
    /\ pc' = "loop"
    /\ last' = <<>>
    /\ UNCHANGED <<simArgs, simResult>>

\* story = Story(et) for the article the first run read at this place
ReadStoryAgain ==
    /\ firstRun # <<>>
    /\ AtLoopTop
    /\ Len(stream) < Len(firstRun[1].stream)
    /\ LET et == firstRun[1].stream[Len(stream) + 1]
       IN stream' = Append(stream, StoryEt(et.accessionNumber, et.displayDate,
                                           et.tickers, et.text))
    /\ ti' = 1
    /\ UNCHANGED <<companies, rows, pc, last, simArgs, simResult, hashseed, firstRun>>

\* next(xtg) raises StopIteration where the files end
EndOfStreamAgain ==
    /\ firstRun # <<>>
    /\ Len(stream) = Len(firstRun[1].stream)
    /\ EndOfStream

NextTwice ==
    \/ ReadStoryTwice
    \/ EndOfStreamFirst
    \/ ProcessTicker
    \/ RaiseZeroDivision
    \/ RunAgain
    \/ ReadStoryAgain
    \/ EndOfStreamAgain

SpecTwice == InitTwice /\ [][NextTwice]_vars

(***************************************************************************)
(* Vocabulary of the properties, defined without the operators above.      *)
(***************************************************************************)
\* the token set of a text
TokenSet(txt) == {stemWord(w) : w \in Range(word_tokenize(txt))} \ StopWords

\* overlap of the tokens of text o with those of text b, relative to o
Overlap(o, b) ==
    <<Cardinality(TokenSet(o) \cap TokenSet(b)), Cardinality(TokenSet(o))>>

Called == last # <<>>
LastCall == last[1]

\* the stories processed for the ticker of the last call before that call,
\* oldest first, read off the rows written and the stream
RECURSIVE StoriesOfRows(_, _)
StoriesOfRows(rs, ticker) ==
    IF rs = <<>> THEN <<>>
    ELSE (IF Head(rs).TICKER = ticker THEN <<stream[Head(rs).STORY_ID[1]]>> ELSE <<>>)
         \o StoriesOfRows(Tail(rs), ticker)

Previous == StoriesOfRows(SubSeq(rows, 1, Len(rows) - 1), LastCall.ticker)

Age(e) == LastCall.story.displayDate - e.displayDate

\* the previous stories of the company within 72 hours of the story
InHorizon == SelectSeq(Previous, LAMBDA e : Age(e) <= 72)

Occurrences(stories, number) ==
    Cardinality({i \in 1..Len(stories) : stories[i].accessionNumber = number})

NeighbourOccurrences(pairs, number) ==
    Cardinality({i \in 1..Len(pairs) : pairs[i][2].accessionNumber = number})

Min(a, b) == IF a < b THEN a ELSE b

\* position of the story in the list the last call traversed
PositionBefore(e) ==
    CHOOSE i \in 1..Len(LastCall.before) :
        /\ LastCall.before[i].accessionNumber = e.accessionNumber
        /\ \A j \in 1..(i - 1) : LastCall.before[j].accessionNumber # e.accessionNumber

(***************************************************************************)
(* C1: after staleNewsProcedure has processed story s for a company, every *)
(* entry of the company's list other than s is at most 72 hours older      *)
(* than s.                                                                 *)
(***************************************************************************)
C1_WindowWithinHorizon ==
    Called =>
        /\ companies[LastCall.ticker] = LastCall.list
        /\ \A i \in 2..Len(LastCall.list) : Age(LastCall.list[i]) <= 72

(***************************************************************************)
(* C2: the neighbours of the last call are min(5, n) of the n previous     *)
(* stories of the company within 72 hours (an entry exactly 72 hours old   *)
(* counts), each with its overlap as score, no story taken more often than *)
(* it was processed, in descending score order, no story left out that     *)
(* scores higher than one taken, and the row reports the maximum score of  *)
(* all n and a story that has it.                                          *)
(***************************************************************************)
C2_NeighboursAreTopFive ==
    Called =>
        LET c == LastCall
            five == c.largestFive
            n == Len(InHorizon)
            txt == c.story.text
        IN /\ rows # <<>> /\ rows[Len(rows)] = c.row
           /\ Len(five) = Min(5, n)
           /\ \A k \in 1..Len(five) :
                  /\ \E i \in 1..n : InHorizon[i] = five[k][2]
                  /\ FEq(five[k][1], Overlap(txt, five[k][2].text))
                  /\ NeighbourOccurrences(five, five[k][2].accessionNumber)
                         <= Occurrences(InHorizon, five[k][2].accessionNumber)
           /\ \A k \in 1..(Len(five) - 1) : ~FLt(five[k][1], five[k + 1][1])
           /\ \A i \in 1..n :
                  NeighbourOccurrences(five, InHorizon[i].accessionNumber)
                      < Occurrences(InHorizon, InHorizon[i].accessionNumber)
                  => ~FLt(five[Len(five)][1], Overlap(txt, InHorizon[i].text))
           /\ IF n = 0
              THEN c.row.CLOSEST_ID = <<>> /\ c.row.CLOSEST_SCORE = <<>>
              ELSE /\ \A i \in 1..n :
                          ~FLt(c.row.CLOSEST_SCORE, Overlap(txt, InHorizon[i].text))
                   /\ \E i \in 1..n :
                          /\ InHorizon[i].accessionNumber = c.row.CLOSEST_ID
                          /\ FEq(c.row.CLOSEST_SCORE, Overlap(txt, InHorizon[i].text))

\* a call with more than five stories within 72 hours, one of them exactly
\* 72 hours old
C2_Witness ==
    /\ Called
    /\ Len(InHorizon) > 5
    /\ \E i \in 1..Len(InHorizon) : Age(InHorizon[i]) = 72

(***************************************************************************)
(* C3: neighbours of equal score are ranked in the order of the traversal, *)
(* the more recent story first.                                            *)
(***************************************************************************)
TiesInTraversalOrder ==
    LET five == LastCall.largestFive
    IN \A j \in 1..Len(five), k \in 1..Len(five) :
           (j < k /\ FEq(five[j][1], five[k][1]))
           => PositionBefore(five[j][2]) < PositionBefore(five[k][2])

C3_TiesNewestFirst == Called => TiesInTraversalOrder

\* the scores met during the traversal never go down
ScoresNeverDrop ==
    LET pushed == LastCall.maxpq
    IN \A j \in 1..Len(pushed), k \in 1..Len(pushed) :
           PositionBefore(pushed[j][2]) < PositionBefore(pushed[k][2])
           => ~FLt(pushed[k][1], pushed[j][1])

\* C3 as amended: neighbours of equal score are ranked in traversal order,
\* the more recent first, when at most five stories are within 72 hours and
\* no story met later in the traversal scores lower than one met before
C3_TiesNewestFirstAmended ==
    (Called /\ Len(LastCall.maxpq) <= 5 /\ ScoresNeverDrop) => TiesInTraversalOrder

\* such a call with two neighbours of equal score and one of another score
C3_Witness ==
    /\ Called
    /\ Len(LastCall.maxpq) <= 5
    /\ ScoresNeverDrop
    /\ \E j, k \in 1..Len(LastCall.largestFive) :
           /\ j < k
           /\ FEq(LastCall.largestFive[j][1], LastCall.largestFive[k][1])
    /\ \E j, k \in 1..Len(LastCall.largestFive) :
           FLt(LastCall.largestFive[k][1], LastCall.largestFive[j][1])

(***************************************************************************)
(* C4: with neighbours, IS_OLD is TOTAL_OVERLAP >= 0.6, IS_REPRINT is      *)
(* IS_OLD and CLOSEST_SCORE >= 0.8, IS_RECOMB is IS_OLD and not            *)
(* IS_REPRINT; CLOSEST_SCORE is the score kept with the first neighbour    *)
(* and TOTAL_OVERLAP the overlap of the story with the joined texts of     *)
(* the neighbours.                                                         *)
(***************************************************************************)
C4_Classification ==
    (Called /\ LastCall.largestFive # <<>>) =>
        LET c == LastCall
            r == c.row
            total == Overlap(c.story.text, neighborWordsOf(c.largestFive))
            closest == c.largestFive[1][1]
            old == 10 * total[1] >= 6 * total[2]
            reprint == old /\ 10 * closest[1] >= 8 * closest[2]
        IN /\ r.CLOSEST_SCORE = closest
           /\ FEq(r.TOTAL_OVERLAP, total)
           /\ r.IS_OLD = old
           /\ r.IS_REPRINT = reprint
           /\ r.IS_RECOMB = (old /\ ~reprint)

\* a row whose TOTAL_OVERLAP is exactly 0.6 and whose CLOSEST_SCORE is
\* exactly 0.8, flagged old and reprint
C4_Witness ==
    /\ Called
    /\ LastCall.largestFive # <<>>
    /\ 10 * LastCall.row.TOTAL_OVERLAP[1] = 6 * LastCall.row.TOTAL_OVERLAP[2]
    /\ 10 * LastCall.row.CLOSEST_SCORE[1] = 8 * LastCall.row.CLOSEST_SCORE[2]
    /\ LastCall.row.IS_OLD
    /\ LastCall.row.IS_REPRINT

(***************************************************************************)
(* C5: in every row written, IS_REPRINT and IS_RECOMB are not both true,   *)
(* each implies IS_OLD, and IS_OLD holds exactly when one of them holds.   *)
(***************************************************************************)
C5_FlagsConsistent ==
    \A i \in 1..Len(rows) :
        /\ ~(rows[i].IS_REPRINT /\ rows[i].IS_RECOMB)
        /\ rows[i].IS_REPRINT => rows[i].IS_OLD
        /\ rows[i].IS_RECOMB => rows[i].IS_OLD
        /\ rows[i].IS_OLD <=> (rows[i].IS_REPRINT \/ rows[i].IS_RECOMB)

\* rows of all three kinds have been written
C5_Witness ==
    /\ \E i \in 1..Len(rows) : rows[i].IS_REPRINT
    /\ \E i \in 1..Len(rows) : rows[i].IS_RECOMB
    /\ \E i \in 1..Len(rows) : ~rows[i].IS_OLD

(***************************************************************************)
(* C6: a pair processed with no previous story of the company within 72    *)
(* hours gets CLOSEST_ID and CLOSEST_SCORE None, TOTAL_OVERLAP 0 and all   *)
(* flags false; if the list was empty the call only inserts the story.     *)
(***************************************************************************)
C6_NoNeighbour ==
    (Called /\ InHorizon = <<>>) =>
        LET c == LastCall
            r == c.row
        IN /\ rows # <<>> /\ rows[Len(rows)] = r
           /\ r.CLOSEST_ID = <<>>
           /\ r.CLOSEST_SCORE = <<>>
           /\ r.TOTAL_OVERLAP[1] = 0
           /\ ~r.IS_OLD /\ ~r.IS_REPRINT /\ ~r.IS_RECOMB
           /\ c.before = <<>> => (c.cutAt = 0 /\ c.list = <<c.story>>)

\* a call that found only stories older than 72 hours
C6_Witness ==
    /\ Called
    /\ InHorizon = <<>>
    /\ Previous # <<>>
    /\ LastCall.before # <<>>
    /\ LastCall.row.CLOSEST_ID = <<>>

(***************************************************************************)
(* C7: a story is never its own neighbour: no row names its own story as   *)
(* closest, and the story is not among the neighbours of its call.         *)
(***************************************************************************)
C7_NeverOwnNeighbour ==
    /\ \A i \in 1..Len(rows) : rows[i].CLOSEST_ID # rows[i].STORY_ID
    /\ Called =>
           \A k \in 1..Len(LastCall.largestFive) :
               LastCall.largestFive[k][2].accessionNumber # LastCall.story.accessionNumber

(***************************************************************************)
(* C8: no (story, ticker) pair has two rows, no ticker with a '.' has a    *)
(* row, and when the stream has been read every story has a row for every  *)
(* ticker of its list without a '.'.                                       *)
(***************************************************************************)
C8_OneRowPerPair ==
    /\ \A i \in 1..Len(rows), j \in 1..Len(rows) :
           (rows[i].STORY_ID = rows[j].STORY_ID /\ rows[i].TICKER = rows[j].TICKER)
           => i = j
    /\ \A i \in 1..Len(rows) : ~HasDot(rows[i].TICKER)
    /\ pc = "done" =>
           \A n \in 1..Len(stream) : \A k \in 1..Len(stream[n].tickers) :
               ~HasDot(stream[n].tickers[k])
               => \E i \in 1..Len(rows) :
                      /\ rows[i].STORY_ID = stream[n].accessionNumber
                      /\ rows[i].TICKER = stream[n].tickers[k]

(***************************************************************************)
(* C9: similaritytest(orig, B) is the number of tokens of orig that are    *)
(* tokens of B over the number of tokens of orig, token sets taken as      *)
(* sets, and lies between 0 and 1.                                         *)
(***************************************************************************)
C9_SimilarityIsOverlap ==
    simResult.state = "returned" =>
        LET v == simResult.value
            o == Overlap(simArgs[1].text, simArgs[2].text)
        IN /\ v[2] > 0
           /\ v[1] * o[2] = o[1] * v[2]
           /\ 0 <= v[1] /\ v[1] <= v[2]

\* a call whose two token sets overlap in part and differ in size
C9_Witness ==
    /\ simResult.state = "returned"
    /\ 0 < simResult.value[1]
    /\ simResult.value[1] < simResult.value[2]
    /\ Cardinality(TokenSet(simArgs[2].text)) # Cardinality(TokenSet(simArgs[1].text))

(***************************************************************************)
(* C10: similaritytest(x, y) is 1 when x has tokens and all of them are    *)
(* tokens of y; so similaritytest(x, x) is 1.                              *)
(***************************************************************************)
C10_SubsetScoresOne ==
    /\ (simResult.state # "none"
        /\ TokenSet(simArgs[1].text) # {}
        /\ TokenSet(simArgs[1].text) \subseteq TokenSet(simArgs[2].text))
       => (simResult.state = "returned" /\ simResult.value[1] = simResult.value[2])
    /\ (simResult.state # "none" /\ TokenSet(simArgs[1].text) # {} /\ simArgs[1] = simArgs[2])
       => (simResult.state = "returned" /\ simResult.value[1] = simResult.value[2])

\* a call with the tokens of x a proper subset of those of y
C10_Witness ==
    /\ simResult.state = "returned"
    /\ simResult.value[1] = simResult.value[2]
    /\ TokenSet(simArgs[1].text) # TokenSet(simArgs[2].text)
    /\ TokenSet(simArgs[1].text) \subseteq TokenSet(simArgs[2].text)

(***************************************************************************)
(* C11: the failure of one story is local: no exception raised while a     *)
(* story is processed leaves procedure, so the loop is never abandoned     *)
(* and the later articles of the stream are still read and processed.      *)
(***************************************************************************)
C11_FailuresAreLocal == pc # "raised"

(***************************************************************************)
(* C12: a second run of procedure on the same articles, from an empty      *)
(* dict and in a process with any hash seed, writes the rows the first run *)
(* wrote, in the same order, and ends as the first run ended.              *)
(***************************************************************************)
C12_Determinism ==
    firstRun # <<>> =>
        LET first == firstRun[1]
        IN /\ Len(rows) <= Len(first.rows)
           /\ rows = SubSeq(first.rows, 1, Len(rows))
           /\ pc \in {"done", "raised"} => (rows = first.rows /\ pc = first.pc)

\* a second run under another hash seed has ended; it listed the words of
\* an article in another order and wrote a row with a closest neighbour
C12_Witness ==
    /\ firstRun # <<>>
    /\ pc = "done"
    /\ hashseed # firstRun[1].hashseed
    /\ \E i \in 1..Len(stream) : stream[i].textWords # firstRun[1].stream[i].textWords
    /\ \E i \in 1..Len(rows) : rows[i].CLOSEST_ID # None /\ rows[i].IS_OLD

(***************************************************************************)
(* C13: an entry that a cut has removed from the list of a company is      *)
(* never again in that list, and no later call for the company scores it   *)
(* or reports it as closest neighbour.                                     *)
(***************************************************************************)
Ids(list) == {list[i].accessionNumber : i \in 1..Len(list)}

\* the stories processed for the company so far
ProcessedFor(k) == {rows[i].STORY_ID : i \in {j \in 1..Len(rows) : rows[j].TICKER = k}}

\* the stories processed for the company that its list has lost
RemovedFrom(k) ==
    IF k \in DOMAIN companies THEN ProcessedFor(k) \ Ids(companies[k]) ELSE {}

\* the stories the call cut off: behind the cut and not also in front of it
CutOff(c) ==
    IF c.cutAt = 0 THEN {}
    ELSE Ids(SubSeq(c.before, c.cutAt + 1, Len(c.before)))
             \ Ids(SubSeq(c.before, 1, c.cutAt))

Scored(c) == {c.maxpq[i][2].accessionNumber : i \in 1..Len(c.maxpq)}

C13_MonotonicPruning ==
    [][/\ \A k \in DOMAIN companies : RemovedFrom(k) \cap Ids(companies'[k]) = {}
       /\ rows' # rows =>
              LET c == last'[1]
                  gone == CutOff(c) \cup RemovedFrom(c.ticker)
              IN /\ gone \cap Ids(companies'[c.ticker]) = {}
                 /\ gone \cap Scored(c) = {}
                 /\ c.row.CLOSEST_ID \notin gone]_vars

\* a call that scored an entry, for a company whose list had lost an entry
\* in an earlier call
C13_Witness ==
    /\ Called
    /\ LastCall.maxpq # <<>>
    /\ RemovedFrom(LastCall.ticker) \ Ids(LastCall.before) # {}

(***************************************************************************)
(* C14: a story without tokens that is scored as origin makes the call     *)
(* fail: procedure is left by the exception only for such a story whose    *)
(* company has an entry within 72 hours at the head of its list, the step  *)
(* writes no row and changes no list (nothing inserted, nothing pruned),   *)
(* and a row written for a story without tokens carries no score, that     *)
(* story having had no entry within 72 hours to be scored against.         *)
(***************************************************************************)
C14_ZeroTokenOriginRaises ==
    [][/\ pc' = "raised" =>
              /\ pc = "loop"
              /\ TokenSet(story.text) = {}
              /\ rows' = rows
              /\ companies' = companies
              /\ LET w == companies[story.tickers[ti]]
                 IN w # <<>> /\ story.displayDate - w[1].displayDate <= 72
       /\ rows' # rows =>
              LET r == rows'[Len(rows')]
              IN TokenSet(stream[r.STORY_ID[1]].text) = {} =>
                     /\ r.CLOSEST_ID = None
                     /\ r.CLOSEST_SCORE = None
                     /\ InHorizon' = <<>>]_vars

\* the call failed for a list that holds an entry older than 72 hours behind
\* the entry it was scoring against
C14_Witness ==
    /\ pc = "raised"
    /\ LET w == companies[story.tickers[ti]]
       IN Len(w) >= 2 /\ story.displayDate - w[Len(w)].displayDate > 72

(***************************************************************************)
(* C15: a step changes the list of a company only when it processes a      *)
(* story for that company: the lists of all other companies stay as they   *)
(* are, however old their entries, the changed list is the story in front  *)
(* of a prefix of the old list, and a list that appears is that of the     *)
(* ticker being processed and holds at most the story.                     *)
(***************************************************************************)
IsPrefix(p, l) == Len(p) <= Len(l) /\ p = SubSeq(l, 1, Len(p))

C15_CompanyLocalPruning ==
    [][/\ \A k \in DOMAIN companies :
              /\ k \in DOMAIN companies'
              /\ companies'[k] # companies[k] =>
                     /\ AtTicker
                     /\ k = story.tickers[ti]
                     /\ rows' # rows
                     /\ companies'[k] # <<>>
                     /\ companies'[k][1] = story
                     /\ IsPrefix(Tail(companies'[k]), companies[k])
       /\ \A k \in DOMAIN companies' \ DOMAIN companies :
              /\ AtTicker
              /\ k = story.tickers[ti]
              /\ companies'[k] \in {<<>>, <<story>>}]_vars

\* the last call, for one company, cut entries off its list while the list
\* of another company holds an entry older than 72 hours at its head
C15_Witness ==
    /\ Called
    /\ LastCall.cutAt > 0
    /\ LastCall.cutAt < Len(LastCall.before)
    /\ \E k \in DOMAIN companies :
           /\ k # LastCall.ticker
           /\ companies[k] # <<>>
           /\ Age(companies[k][1]) > 72

(***************************************************************************)
(* C16: the keys of the dict are exactly the tags without '.' that the for *)
(* loop has passed, over all articles read so far; no key is ever removed; *)
(* every row is for such a tag of its story; and a step that reads an      *)
(* article without tags, or that is at a tag with '.', writes no row and   *)
(* changes neither a list nor the keys.                                    *)
(***************************************************************************)
\* the tag holds a '.'
Dotted(t) == "." \in Range(t)

\* the tags the for loop has gone through, over all articles read
TagsPassed ==
    UNION {{stream[i].tickers[j] :
                j \in 1..(IF i < Len(stream) THEN Len(stream[i].tickers) ELSE ti - 1)} :
           i \in 1..Len(stream)}

KeysAreTagsPassed ==
    /\ DOMAIN companies = {t \in TagsPassed : ~Dotted(t)}
    /\ \A i \in 1..Len(rows) :
           /\ ~Dotted(rows[i].TICKER)
           /\ rows[i].TICKER \in Range(stream[rows[i].STORY_ID[1]].tickers)

C16_KeysAreProcessedTags ==
    [][/\ KeysAreTagsPassed'
       /\ DOMAIN companies \subseteq DOMAIN companies'
       /\ (stream' # stream /\ stream'[Len(stream')].tickers = <<>>) =>
              (rows' = rows /\ companies' = companies)
       /\ (IF stream = <<>> \/ pc # "loop" THEN FALSE
           ELSE IF ti > Len(story.tickers) THEN FALSE ELSE Dotted(story.tickers[ti])) =>
              (rows' = rows /\ companies' = companies)]_vars

\* an article without tags and a tag with '.' have been passed, two tickers
\* are keys
C16_Witness ==
    /\ \E i \in 1..Len(stream) : stream[i].tickers = <<>>
    /\ \E t \in TagsPassed : Dotted(t)
    /\ Cardinality(DOMAIN companies) = 2
    /\ Len(rows) >= 2

(***************************************************************************)
(* C17: when procedure has ended, the rows it wrote for a company are the  *)
(* rows that staleNewsProcedure yields when the articles tagged with that  *)
(* company, in the order of the stream, are processed on their own from an *)
(* empty list.                                                             *)
(***************************************************************************)
\* the queue of a company: the articles read, once for every tag that is
\* the company's
RECURSIVE QueueOf(_, _)
QueueOf(k, articles) ==
    IF articles = <<>> THEN <<>>
    ELSE LET s == Head(articles)
             n == Cardinality({j \in 1..Len(s.tickers) : s.tickers[j] = k})
         IN (IF n = 0 THEN <<>> ELSE IF n = 1 THEN <<s>> ELSE <<s, s>>)
            \o QueueOf(k, Tail(articles))

\* the rows of a queue drained in order; a call that raises ends the drain
RECURSIVE Drain(_, _, _)
Drain(k, queue, list) ==
    IF queue = <<>> THEN <<>>
    ELSE LET called == staleNewsProcedure(k, Head(queue), list)
         IN IF called.raised THEN <<>>
            ELSE <<called.row>> \o Drain(k, Tail(queue), called.list)

RowsOfCompany(k) == SelectSeq(rows, LAMBDA r : r.TICKER = k)

AllTags == UNION {Range(stream[i].tickers) : i \in 1..Len(stream)}

C17_PerCompanyIndependence ==
    pc \in {"done", "raised"} =>
        \A k \in {t \in AllTags : ~Dotted(t)} :
            RowsOfCompany(k) = Drain(k, QueueOf(k, stream), myLinkedList)

(***************************************************************************)
(* C18: the tokens of the merged neighbour of the last call are the union  *)
(* of the tokens of the neighbours' texts, whatever the order in which the *)
(* neighbours are merged, and TOTAL_OVERLAP is the overlap of the story    *)
(* with that union.                                                        *)
(***************************************************************************)
RECURSIVE Permuted(_, _, _)
Permuted(pairs, p, i) ==
    IF i > Len(pairs) THEN <<>>
    ELSE <<pairs[p[i]]>> \o Permuted(pairs, p, i + 1)

UnionOfTokens(pairs) == UNION {TokenSet(pairs[i][2].text) : i \in 1..Len(pairs)}

C18_MergedTokensAreUnion ==
    (Called /\ LastCall.largestFive # <<>>) =>
        LET five == LastCall.largestFive
            own == TokenSet(LastCall.story.text)
        IN /\ \A p \in Permutations(1..Len(five)) :
                  TokenSet(neighborWordsOf(Permuted(five, p, 1))) = UnionOfTokens(five)
           /\ FEq(LastCall.row.TOTAL_OVERLAP,
                  <<Cardinality(own \cap UnionOfTokens(five)), Cardinality(own)>>)

(***************************************************************************)
(* C19: with articles arriving in time order, the list of every company    *)
(* runs from the newest entry to the oldest (display dates never increase  *)
(* from head to tail), its head is the story processed last for the        *)
(* company, and it is no longer than the number of rows written for the    *)
(* company, so a traversal ends.                                           *)
(***************************************************************************)
C19_NewestFirst ==
    \A k \in DOMAIN companies :
        LET w == companies[k]
            written == RowsOfCompany(k)
        IN /\ \A i \in 1..Len(w) : \A j \in i..Len(w) :
                  w[i].displayDate >= w[j].displayDate
           /\ Len(w) <= Len(written)
           /\ written # <<>>
           /\ w # <<>>
           /\ w[1].accessionNumber = written[Len(written)].STORY_ID

\* a list of three entries of different dates beside the list of another
\* company
C19_Witness ==
    /\ Cardinality(DOMAIN companies) = 2
    /\ \E k \in DOMAIN companies :
           /\ Len(companies[k]) >= 3
           /\ companies[k][1].displayDate > companies[k][Len(companies[k])].displayDate

(***************************************************************************)
(* C20: in the row of a call with a closest neighbour TOTAL_OVERLAP is at  *)
(* least CLOSEST_SCORE; a CLOSEST_SCORE of at least 0.8 comes with IS_OLD  *)
(* and IS_REPRINT; and a story with the tokens of a previous story of the  *)
(* company within 72 hours has TOTAL_OVERLAP 1, CLOSEST_SCORE 1, IS_OLD    *)
(* and IS_REPRINT.                                                         *)
(***************************************************************************)
C20_MergedCoversClosest ==
    (Called /\ LastCall.row.CLOSEST_ID # None) =>
        LET r == LastCall.row
            own == TokenSet(LastCall.story.text)
        IN /\ ~FLt(r.TOTAL_OVERLAP, r.CLOSEST_SCORE)
           /\ ~FLt(r.CLOSEST_SCORE, <<4, 5>>) => (r.IS_OLD /\ r.IS_REPRINT)
           /\ (\E i \in 1..Len(InHorizon) : TokenSet(InHorizon[i].text) = own) =>
                  /\ FEq(r.TOTAL_OVERLAP, <<1, 1>>)
                  /\ FEq(r.CLOSEST_SCORE, <<1, 1>>)
                  /\ r.IS_OLD
                  /\ r.IS_REPRINT

====
